---- MODULE Spec2Model ----
(***************************************************************************)
(* A model of the MCP control plane of OptiMac:                            *)
(*   - the lifecycle registry (gerdsenai_optimac/mcp/registry.py),         *)
(*   - the protocol client    (gerdsenai_optimac/mcp/client.py),           *)
(*   - the server discovery   (gerdsenai_optimac/mcp/discovery.py).        *)
(* Spec is the registry: its in-memory map, its state file, the child      *)
(* processes its clients spawn and the coroutines running start/restart.   *)
(***************************************************************************)
EXTENDS Integers, Sequences, FiniteSets, TLC

(***************************************************************************)
(* Bounds of the model.                                                    *)
(***************************************************************************)
\* the number of child processes the operating system hands out
MaxSpawns == 2
\* the cap on the requests counted, over all servers
MaxCount == 1

\* server names, in the order the registry's map is iterated
NameSeq == <<"a", "b">>
Names == {NameSeq[i] : i \in 1..Len(NameSeq)}
\* coroutines that may run start/restart concurrently on the event loop
Tasks == {"t1", "t2"}
\* the one coroutine of the sequential specification
SeqTasks == {"t1"}
\* the names the concurrent specification works on
ConcNames == {"a"}
\* the configs discovery hands to register(): one server of each transport
TypeOf(n) == IF n = "a" THEN "stdio" ELSE "http"
Pids == 1..MaxSpawns

\* Python's None for the string- and timestamp-valued fields
None == "None"
\* Python's None for pid: a real pid is never 0 and `if info.pid` treats both alike
NoPid == 0
\* what datetime.now() returns, and its isoformat() text
Now == "now"

VARIABLES
    servers,   \* ServerRegistry.servers: name -> ServerInfo
    file,      \* the state file: the list under "servers", one dict per record
    procs,     \* the children spawned so far: pid -> none | alive | mute | termed | dead
    task,      \* the coroutines: where each start/restart call is suspended
    last,      \* the registry call that made the last step, and what it returned
    client,    \* one MCPClient: its fields
    pipe,      \* per child: the requests written to it and not yet read back
    caller,    \* the coroutines calling the client: where each is suspended
    configs,   \* the candidate config files: path -> what the file holds
    discovered \* the call of discover_servers(): what it returned

\* the calls of the registry and of the client leave the discovery alone
disVars == <<configs, discovered>>
regVars == <<servers, file, task, last, disVars>>
cliVars == <<client, pipe, caller, disVars>>
vars == <<servers, file, procs, task, last, client, pipe, caller, configs,
          discovered>>

(***************************************************************************)
(* Server discovery (discovery.py): the candidate config files, the JSON   *)
(* documents they may hold, and the functions that read them. A JSON value *)
(* is [t, v]: its type and, for an object, its members in document order   *)
(* as <<key, value>> pairs.                                                *)
(***************************************************************************)
JObject(pairs) == [t |-> "object", v |-> pairs]
JArray(items) == [t |-> "array", v |-> items]
\* a string, as the words it is made of
JString(words) == [t |-> "string", v |-> words]
JNumber(n) == [t |-> "number", v |-> <<n>>]
JNull == [t |-> "null", v |-> << >>]

\* a file that does not exist, and one json.load rejects
Missing == [t |-> "missing", v |-> << >>]
Malformed == [t |-> "malformed", v |-> << >>]

Member(k, x) == <<k, x>>
Keys(obj) == {obj.v[i][1] : i \in 1..Len(obj.v)}
\* obj[key]
Item(obj, key) == obj.v[CHOOSE i \in 1..Len(obj.v) : obj.v[i][1] = key][2]
\* obj.get(key, default)
GetOr(obj, key, default) == IF key \in Keys(obj) THEN Item(obj, key) ELSE default

\* a call that returned value, and one that raised
Returns(value) == [raised |-> None, value |-> value]
Raises(error) == [raised |-> error, value |-> << >>]

\* Python's truth value: `not x` is true of an empty container, an empty string,
\* zero and null
Truthy(x) ==
    CASE x.t \in {"object", "array", "string"} -> x.v /= << >>
      [] x.t = "number" -> x.v /= <<0>>
      [] OTHER -> FALSE

\* `key in x`: a key of an object, an element of an array, a substring of a
\* string; a number and null are not iterable
Contains(x, key) ==
    CASE x.t = "object" -> Returns(key \in Keys(x))
      [] x.t = "array" -> Returns(\E i \in 1..Len(x.v) : x.v[i] = JString(<<key>>))
      [] x.t = "string" -> Returns(\E i \in 1..Len(x.v) : x.v[i] = key)
      [] OTHER -> Raises("TypeError")

\* x[key] with a string key: only an object can be subscripted by it
Subscript(x, key) ==
    IF x.t = "object" THEN Returns(Item(x, key)) ELSE Raises("TypeError")

\* get_user_mcp_configs(): the candidate files, in the order they are read
get_user_mcp_configs ==
    <<"~/.config/anthropic/config.json",
      "~/Library/Application Support/Claude/claude_desktop_config.json",
      "~/.optimac/mcp_servers.json">>

ConfigPaths == {get_user_mcp_configs[i] : i \in 1..Len(get_user_mcp_configs)}

\* a stdio config that copies the entry's url as well: C31 must tell it from
\* StdioConfig
StdioConfigKeepsUrl(name, config) ==
    IF "url" \in Keys(config)
    THEN [name |-> name, type |-> "stdio", command |-> Item(config, "command"),
          args |-> GetOr(config, "args", JArray(<< >>)),
          env |-> GetOr(config, "env", JObject(<< >>)),
          url |-> Item(config, "url")]
    ELSE [name |-> name, type |-> "stdio", command |-> Item(config, "command"),
          args |-> GetOr(config, "args", JArray(<< >>)),
          env |-> GetOr(config, "env", JObject(<< >>))]

\* the normalized configs parse_server_config builds
StdioConfig(name, config) ==
    [name |-> name, type |-> "stdio", command |-> Item(config, "command"),
     args |-> GetOr(config, "args", JArray(<< >>)),
     env |-> GetOr(config, "env", JObject(<< >>))]

HttpConfig(name, config) ==
    IF "auth" \in Keys(config)
    THEN [name |-> name, type |-> "http", url |-> Item(config, "url"),
          auth |-> Item(config, "auth")]
    ELSE [name |-> name, type |-> "http", url |-> Item(config, "url")]

\* a normalization that tests the url key first: C30 must tell it from
\* parse_server_config
ParseServerConfigUrlFirst(name, config) ==
    IF ~Truthy(config) THEN Returns(<< >>)
    ELSE LET command == Contains(config, "command")
             url == Contains(config, "url")
         IN
         IF url.raised /= None THEN Raises(url.raised)
         ELSE IF url.value
         THEN IF Subscript(config, "url").raised /= None
              THEN Raises(Subscript(config, "url").raised)
              ELSE Returns(<<HttpConfig(name, config)>>)
         ELSE IF command.value
         THEN IF Subscript(config, "command").raised /= None
              THEN Raises(Subscript(config, "command").raised)
              ELSE Returns(<<StdioConfig(name, config)>>)
         ELSE Returns(<< >>)

\* parse_server_config(name, config): the value returned is << >> for None and
\* <<server>> for a normalized config
parse_server_config(name, config) ==
    IF ~Truthy(config) THEN Returns(<< >>)
    ELSE LET command == Contains(config, "command")
             url == Contains(config, "url")
         IN
         IF command.raised /= None THEN Raises(command.raised)
         ELSE IF command.value
         THEN IF Subscript(config, "command").raised /= None
              THEN Raises(Subscript(config, "command").raised)
              ELSE Returns(<<StdioConfig(name, config)>>)
         ELSE IF url.value
         THEN IF Subscript(config, "url").raised /= None
              THEN Raises(Subscript(config, "url").raised)
              ELSE Returns(<<HttpConfig(name, config)>>)
         ELSE Returns(<< >>)

\* parsed["source"] = str(config_path)
WithSource(parsed, path) ==
    [f \in DOMAIN parsed \cup {"source"} |->
        IF f = "source" THEN path ELSE parsed[f]]

\* for name, server_config in mcp_servers.items(): the servers appended to found,
\* or the exception that ends the loop
RECURSIVE ParseItems(_, _, _)
ParseItems(pairs, path, found) ==
    IF pairs = << >> THEN Returns(found)
    ELSE LET parsed == parse_server_config(pairs[1][1], pairs[1][2]) IN
         IF parsed.raised /= None THEN Raises(parsed.raised)
         ELSE ParseItems(Tail(pairs), path,
                         IF parsed.value = << >> THEN found
                         ELSE Append(found, WithSource(parsed.value[1], path)))

\* a reader that looks under servers first: C29 must tell it from ServersMapping
ServersMappingPrefersServers(config_data) ==
    LET mcp == Contains(config_data, "mcpServers")
        srv == Contains(config_data, "servers")
    IN
    IF srv.raised /= None THEN Raises(srv.raised)
    ELSE IF srv.value THEN Subscript(config_data, "servers")
    ELSE IF mcp.value THEN Subscript(config_data, "mcpServers")
    ELSE Returns(config_data)

\* the servers mapping of a parsed document: config_data["mcpServers"], else
\* config_data["servers"], else config_data itself
ServersMapping(config_data) ==
    LET mcp == Contains(config_data, "mcpServers")
        srv == Contains(config_data, "servers")
    IN
    IF mcp.raised /= None THEN Raises(mcp.raised)
    ELSE IF mcp.value THEN Subscript(config_data, "mcpServers")
    ELSE IF srv.value THEN Subscript(config_data, "servers")
    ELSE Returns(config_data)

\* a loop body without the except clause: C27 must tell it from ReadConfig
ReadConfigUncaught(content, path, found) ==
    IF content = Missing THEN Returns(found)
    ELSE IF content = Malformed THEN Raises("JSONDecodeError")
    ELSE LET mcp_servers == ServersMapping(content) IN
         IF mcp_servers.raised /= None THEN Raises(mcp_servers.raised)
         ELSE IF mcp_servers.value.t /= "object" THEN Raises("AttributeError")
         ELSE ParseItems(mcp_servers.value.v, path, found)

\* the body of discover_servers' loop for one candidate file: a missing file
\* and a JSONDecodeError are passed over, any other exception leaves the loop
ReadConfig(content, path, found) ==
    IF content \in {Missing, Malformed} THEN Returns(found)
    ELSE LET mcp_servers == ServersMapping(content) IN
         IF mcp_servers.raised /= None THEN Raises(mcp_servers.raised)
         ELSE IF mcp_servers.value.t /= "object" THEN Raises("AttributeError")
         ELSE ParseItems(mcp_servers.value.v, path, found)

\* for config_path in config_paths, from the i-th candidate on
RECURSIVE ReadConfigs(_, _, _)
ReadConfigs(disk, i, found) ==
    IF i > Len(get_user_mcp_configs) THEN Returns(found)
    ELSE LET path == get_user_mcp_configs[i]
             read == ReadConfig(disk[path], path, found)
         IN
         IF read.raised /= None THEN Raises(read.raised)
         ELSE ReadConfigs(disk, i + 1, read.value)

\* discover_servers() over the files on the disk
discover_servers(disk) == ReadConfigs(disk, 1, << >>)

\* no candidate file exists; discover_servers() has not been called
NoConfigs == [path \in ConfigPaths |-> Missing]
NotCalled == [called |-> FALSE, raised |-> None, servers |-> << >>]

DiscoveryIdle == configs = NoConfigs /\ discovered = NotCalled

\* the call of discover_servers(): what it returned, or that it raised
Discover ==
    /\ ~discovered.called
    /\ LET out == discover_servers(configs) IN
       discovered' = [called |-> TRUE, raised |-> out.raised, servers |-> out.value]
    /\ UNCHANGED <<configs, servers, file, procs, task, last, client, pipe, caller>>

\* the per-server values the documents hold: a command, a command with args and
\* env, a command and a url, a url, a url with auth, neither key, an empty
\* object, strings, a number, null
Command == JString(<<"npx">>)
Url == JString(<<"http://localhost:8080">>)
StdioBare == JObject(<<Member("command", Command)>>)
HttpBare == JObject(<<Member("url", Url)>>)
NoTransport == JObject(<<Member("description", JString(<<"notes">>))>>)

RawEntries ==
    {StdioBare,
     JObject(<<Member("command", Command),
               Member("args", JArray(<<JString(<<"-y">>)>>)),
               Member("env", JObject(<<Member("KEY", JString(<<"v">>))>>))>>),
     JObject(<<Member("url", Url), Member("command", Command)>>),
     HttpBare,
     JObject(<<Member("url", Url),
               Member("auth", JObject(<<Member("type", JString(<<"bearer">>)),
                                        Member("token", JString(<<"t">>))>>))>>),
     NoTransport,
     JObject(<< >>),
     JString(<<"npx">>),
     JString(<<"run", "command">>),
     JNumber(1),
     JNull}

CoreEntries == {StdioBare, NoTransport, JNumber(1)}

\* servers mappings: none, one or two entries
Mappings ==
    {<< >>}
      \cup {<<Member("a", e)>> : e \in RawEntries}
      \cup {<<Member("a", e), Member("b", f)>> : e, f \in CoreEntries}

WrappedMappings ==
    {<<Member("a", StdioBare)>>, <<Member("b", HttpBare)>>,
     <<Member("a", NoTransport), Member("b", StdioBare)>>}

\* the documents a candidate file may hold: a servers mapping as the whole
\* document, under mcpServers, under servers, under both next to other keys;
\* and JSON of another shape
ConfigDocuments ==
    {JObject(m) : m \in Mappings}
      \cup {JObject(<<Member(k, JObject(m))>>) :
                k \in {"mcpServers", "servers"}, m \in WrappedMappings}
      \cup {JObject(<<Member("servers", JObject(<<Member("b", HttpBare)>>)),
                      Member("mcpServers", JObject(m)),
                      Member("c", StdioBare)>>) :
                m \in {<< >>, <<Member("a", StdioBare)>>}}
      \cup {JArray(<< >>), JArray(<<StdioBare>>), JNumber(1), JString(<<"x">>),
            JNull,
            JObject(<<Member("mcpServers", JArray(<<StdioBare>>))>>),
            JObject(<<Member("servers", JNumber(1))>>),
            JObject(<<Member("mcpServers", JNull)>>)}

FileContents == {Missing, Malformed} \cup ConfigDocuments

(***************************************************************************)
(* ServerInfo and its serialized form.                                     *)
(***************************************************************************)
Config(n, ty) == [name |-> n, type |-> ty]

ServerInfo(n, cfg) ==
    [name |-> n, config |-> cfg, pid |-> NoPid, started_at |-> None,
     status |-> "stopped", error |-> None, request_count |-> 0]

isoformat(ts) == <<"iso", ts>>
fromisoformat(s) == s[2]

\* a to_dict that leaves the error out: C17 must tell it from to_dict
to_dictDropsError(info) ==
    [name |-> info.name, config |-> info.config, pid |-> info.pid,
     started_at |-> IF info.started_at /= None
                    THEN isoformat(info.started_at) ELSE <<>>,
     status |-> info.status, error |-> None,
     request_count |-> info.request_count]

to_dict(info) ==
    [name |-> info.name, config |-> info.config, pid |-> info.pid,
     started_at |-> IF info.started_at /= None
                    THEN isoformat(info.started_at) ELSE <<>>,
     status |-> info.status, error |-> info.error,
     request_count |-> info.request_count]

\* data.get(key, default); JSON null is written as the default
Get(data, key, default) == IF key \in DOMAIN data THEN data[key] ELSE default

\* a from_dict that forgets the counter: C11 must tell it from from_dict
from_dictDropsCount(data) ==
    [name |-> data.name, config |-> data.config, pid |-> Get(data, "pid", NoPid),
     started_at |-> IF Get(data, "started_at", << >>) /= << >>
                    THEN fromisoformat(data.started_at) ELSE None,
     status |-> Get(data, "status", "stopped"),
     error |-> Get(data, "error", None),
     request_count |-> 0]

from_dict(data) ==
    [name |-> data.name, config |-> data.config, pid |-> Get(data, "pid", NoPid),
     started_at |-> IF Get(data, "started_at", << >>) /= << >>
                    THEN fromisoformat(data.started_at) ELSE None,
     status |-> Get(data, "status", "stopped"),
     error |-> Get(data, "error", None),
     request_count |-> Get(data, "request_count", 0)]

\* a loader that lacks the reset: C1 must tell it from LoadRecord
LoadRecordKeepsRunning(data) == from_dict(data)

\* _load_state, the body of its loop: a record found running is reset
LoadRecord(data) ==
    LET info == from_dict(data) IN
    IF info.status = "running"
    THEN [info EXCEPT !.status = "stopped", !.pid = NoPid]
    ELSE info

\* _load_state: later records of the list overwrite earlier ones of the same name
LoadState(f) ==
    LET names == {f[i].name : i \in 1..Len(f)}
        lastIdx(n) == CHOOSE i \in 1..Len(f) :
                         /\ f[i].name = n
                         /\ \A j \in 1..Len(f) : f[j].name = n => j <= i
    IN [n \in names |-> LoadRecord(f[lastIdx(n)])]

\* _save_state: every ServerInfo of the map, serialized, in the map's order
SaveState(srv) ==
    LET present == SelectSeq(NameSeq, LAMBDA n : n \in DOMAIN srv)
    IN [i \in 1..Len(present) |-> to_dict(srv[present[i]])]

(***************************************************************************)
(* Processes.                                                              *)
(***************************************************************************)
Exists(p) == procs[p] \in {"alive", "mute", "termed"}

\* _is_process_alive: os.kill(pid, 0) succeeds iff the pid exists
IsProcessAlive(pid) == pid \in Pids /\ Exists(pid)

Spawned == {p \in Pids : procs[p] /= "none"}
NextPid == Cardinality(Spawned) + 1

Idle == [pc |-> "idle", name |-> None, op |-> None, child |-> NoPid,
         detached |-> FALSE]

\* a call's record: the operation, its name argument, what it returned (FALSE
\* while it is suspended or when it returns nothing) and whether it returned on
\* one of its early-return paths
Called(op, n, ret, fast) == [op |-> op, name |-> n, ret |-> ret, fast |-> fast]

RegistryInit ==
    /\ servers = << >>
    /\ file = << >>
    /\ procs = [p \in Pids |-> "none"]
    /\ task = [t \in Tasks |-> Idle]
    /\ last = Called("init", None, FALSE, FALSE)
    /\ DiscoveryIdle

\* register(name, config): a fresh ServerInfo replaces any earlier one; the
\* coroutines suspended in start(name) keep the object they fetched
Register(n) ==
    /\ UNCHANGED cliVars
    /\ servers' = [m \in DOMAIN servers \cup {n} |->
                     IF m = n THEN ServerInfo(n, Config(n, TypeOf(n))) ELSE servers[m]]
    /\ file' = SaveState(servers')
    /\ task' = [t \in Tasks |->
                  IF task[t].pc = "connecting" /\ task[t].name = n
                  THEN [task[t] EXCEPT !.detached = TRUE] ELSE task[t]]
    /\ last' = Called("register", n, FALSE, FALSE)
    /\ UNCHANGED procs

\* a fast path that trusts a dead pid and distrusts a live one: C4 must tell it
\* from AlreadyRunning
AlreadyRunningProbeInverted(info) ==
    info.status = "running" /\ info.pid /= NoPid /\ ~IsProcessAlive(info.pid)

\* start(): the server counts as already running only with a pid that is alive
AlreadyRunning(info) ==
    info.status = "running" /\ info.pid /= NoPid /\ IsProcessAlive(info.pid)

\* start(): info.status = "starting"; info.error = None
MarkStarting(info) == [info EXCEPT !.status = "starting", !.error = None]

\* start(), connect() returned true: the pid is captured for a stdio client that
\* holds a process, then status, started_at
MarkRunning(info, child) ==
    [info EXCEPT !.pid = IF info.config.type = "stdio" /\ child /= NoPid
                         THEN child ELSE @,
                 !.status = "running",
                 !.started_at = Now]

\* start(), connect() returned false
MarkFailed(info) == [info EXCEPT !.status = "error", !.error = "Failed to connect"]

Begun(op) == IF op = "start" THEN "start_begin" ELSE "restart_begin"

\* start(name), from its call to its first suspension: the checks, the fresh
\* client, and connect() up to where it awaits the child or the health probe.
\* create_subprocess_exec forks before it first suspends, so the spawn (or its
\* failure, which connect() turns into false) belongs to this step.
StartBody(t, n, op) ==
    IF n \notin DOMAIN servers
    THEN /\ last' = Called(op, n, FALSE, FALSE)
         /\ task' = [task EXCEPT ![t] = Idle]
         /\ UNCHANGED <<servers, file, procs>>
    ELSE IF AlreadyRunning(servers[n])
    THEN /\ last' = Called(op, n, TRUE, TRUE)
         /\ task' = [task EXCEPT ![t] = Idle]
         /\ UNCHANGED <<servers, file, procs>>
    ELSE LET info == MarkStarting(servers[n]) IN
         IF info.config.type = "stdio"
         THEN \/ /\ NextPid <= MaxSpawns
                 /\ \E mode \in {"alive", "mute"} :
                        procs' = [procs EXCEPT ![NextPid] = mode]
                 /\ servers' = [servers EXCEPT ![n] = info]
                 /\ task' = [task EXCEPT ![t] =
                       [pc |-> "connecting", name |-> n, op |-> op,
                        child |-> NextPid, detached |-> FALSE]]
                 /\ last' = Called(Begun(op), n, FALSE, FALSE)
                 /\ UNCHANGED file
              \/ \* the spawn raises: connect() returns false at once
                 /\ servers' = [servers EXCEPT ![n] = MarkFailed(info)]
                 /\ file' = SaveState(servers')
                 /\ task' = [task EXCEPT ![t] = Idle]
                 /\ last' = Called(op, n, FALSE, FALSE)
                 /\ UNCHANGED procs
         ELSE /\ servers' = [servers EXCEPT ![n] = info]
              /\ task' = [task EXCEPT ![t] =
                    [pc |-> "connecting", name |-> n, op |-> op,
                     child |-> NoPid, detached |-> FALSE]]
              /\ last' = Called(Begun(op), n, FALSE, FALSE)
              /\ UNCHANGED <<file, procs>>

Start(t, n) ==
    /\ UNCHANGED cliVars
    /\ task[t].pc = "idle"
    /\ StartBody(t, n, "start")

\* what connect() can return once the coroutine resumes: a stdio child that
\* answers may answer with or without a result, one that has exited gives end of
\* stream, a mute one leaves readline() suspended; the health probe either
\* returns 200 or does not
ConnectResults(tk) ==
    IF tk.child /= NoPid
    THEN CASE procs[tk.child] = "alive" -> {TRUE, FALSE}
           [] procs[tk.child] = "dead"  -> {FALSE}
           [] OTHER                     -> {}
    ELSE {TRUE, FALSE}

\* start(name), from the return of connect() to its own return
ConnectDone(t) ==
    LET tk == task[t]
        n == tk.name
    IN
    /\ UNCHANGED cliVars
    /\ tk.pc = "connecting"
    /\ \E ok \in ConnectResults(tk) :
         /\ servers' = IF tk.detached THEN servers
                       ELSE [servers EXCEPT ![n] =
                               IF ok THEN MarkRunning(@, tk.child) ELSE MarkFailed(@)]
         /\ last' = Called(tk.op, n, ok, FALSE)
    /\ file' = SaveState(servers')
    /\ task' = [task EXCEPT ![t] = Idle]
    /\ UNCHANGED procs

\* start(), the except clause: status and the exception's text
MarkRaised(info, text) == [info EXCEPT !.status = "error", !.error = text]

Raised(op) == IF op = "start" THEN "start_raised" ELSE "restart_raised"

\* what a _save_state that raises leaves of the file: the old content when
\* mkdir() or open() raised, a truncated file (which loads as no state) when the
\* write did
FailedSave(f) == {f, << >>}

\* start(name), from the return of connect() to its own return, when the
\* _save_state() of the try block raises OSError: the except clause records the
\* exception and calls _save_state() again, which may raise again; a second
\* exception leaves start()
ConnectDoneSaveRaises(t) ==
    LET tk == task[t]
        n == tk.name
    IN
    /\ UNCHANGED cliVars
    /\ tk.pc = "connecting"
    /\ \E ok \in ConnectResults(tk) :
          servers' = IF tk.detached THEN servers
                     ELSE [servers EXCEPT ![n] =
                             MarkRaised(IF ok THEN MarkRunning(@, tk.child)
                                        ELSE MarkFailed(@), "OSError")]
    /\ \/ /\ file' = SaveState(servers')
          /\ last' = Called(tk.op, n, FALSE, FALSE)
       \/ /\ file' \in FailedSave(file)
          /\ last' = Called(Raised(tk.op), n, FALSE, FALSE)
    /\ task' = [task EXCEPT ![t] = Idle]
    /\ UNCHANGED procs

\* stop(): os.kill(pid, SIGTERM) and, when it did not raise, info.pid = None
KillAndClear(info) ==
    IF info.config.type = "stdio" /\ info.pid /= NoPid /\ IsProcessAlive(info.pid)
    THEN [info EXCEPT !.pid = NoPid]
    ELSE info

\* stop(name) on a registered, running server
StopRunning(info) == [KillAndClear(info) EXCEPT !.status = "stopped"]

\* a stop that reports whether it had anything to stop: C19 must tell it from
\* StopReturns
StopReturnsIfRunning(n) == n \in DOMAIN servers /\ servers[n].status = "running"

\* stop(name): false for an unknown name, true otherwise
StopReturns(n) == n \in DOMAIN servers

\* stop(name): what it does to the map, the file and the processes
StopBody(n) ==
    IF n \notin DOMAIN servers \/ servers[n].status /= "running"
    THEN UNCHANGED <<servers, file, procs>>
    ELSE /\ servers' = [servers EXCEPT ![n] = StopRunning(@)]
         /\ file' = SaveState(servers')
         /\ procs' = IF /\ servers[n].config.type = "stdio"
                        /\ servers[n].pid /= NoPid
                        /\ IsProcessAlive(servers[n].pid)
                     THEN [procs EXCEPT ![servers[n].pid] = "termed"]
                     ELSE procs

Stop(n) ==
    /\ UNCHANGED cliVars
    /\ StopBody(n)
    /\ last' = Called("stop", n, StopReturns(n),
                      n \notin DOMAIN servers \/ servers[n].status /= "running")
    /\ UNCHANGED task

\* restart(name) up to its sleep: stop(name)
RestartBegin(t, n) ==
    /\ UNCHANGED cliVars
    /\ task[t].pc = "idle"
    /\ StopBody(n)
    /\ task' = [task EXCEPT ![t] = [Idle EXCEPT !.pc = "sleep", !.name = n,
                                                !.op = "restart"]]
    /\ last' = Called("restart_stop", n, StopReturns(n), FALSE)

\* restart(name) after its sleep: start(name)
RestartWake(t) ==
    /\ UNCHANGED cliVars
    /\ task[t].pc = "sleep"
    /\ StartBody(t, task[t].name, "restart")

\* the requests the registry has counted, over all servers
Counted ==
    Cardinality({nk \in (DOMAIN servers) \X (1..MaxCount) :
                    nk[2] <= servers[nk[1]].request_count})

\* an increment that does not persist: C32 must tell it from
\* IncrementRequestCount
IncrementNotSaved(n) ==
    /\ UNCHANGED cliVars
    /\ n \in DOMAIN servers => Counted < MaxCount
    /\ IF n \in DOMAIN servers
       THEN /\ servers' = [servers EXCEPT ![n].request_count = @ + 1]
            /\ UNCHANGED file
       ELSE UNCHANGED <<servers, file>>
    /\ last' = Called("incr", n, FALSE, FALSE)
    /\ UNCHANGED <<procs, task>>

\* increment_request_count(name)
IncrementRequestCount(n) ==
    /\ UNCHANGED cliVars
    /\ n \in DOMAIN servers => Counted < MaxCount
    /\ IF n \in DOMAIN servers
       THEN /\ servers' = [servers EXCEPT ![n].request_count = @ + 1]
            /\ file' = SaveState(servers')
       ELSE UNCHANGED <<servers, file>>
    /\ last' = Called("incr", n, FALSE, FALSE)
    /\ UNCHANGED <<procs, task>>

\* a child exits (on its own, or after the termination signal)
ChildExit(p) ==
    /\ Exists(p)
    /\ procs' = [procs EXCEPT ![p] = "dead"]
    /\ pipe' = [pipe EXCEPT ![p] = SelectSeq(@, LAMBDA e : e.answered)]
    /\ UNCHANGED <<regVars, client, caller>>

\* the control plane exits, with whatever coroutines were suspended, and a new
\* one constructs its ServerRegistry over the same state file
Reload ==
    /\ UNCHANGED cliVars
    /\ servers' = LoadState(file)
    /\ task' = [t \in Tasks |-> Idle]
    /\ last' = Called("reload", None, FALSE, FALSE)
    /\ UNCHANGED <<file, procs>>

(***************************************************************************)
(* A registry constructed over a state file it did not write. The document *)
(* is [top, items]: what the file is at its top level and, when that is an *)
(* object with a list under "servers", the list. An item that is not a     *)
(* JSON object is written as the record with the one field scalar.         *)
(***************************************************************************)
\* how many items the list of a state file holds
MaxRecords == 2

\* a record as _save_state writes it
FullRecord(n, status) ==
    [name |-> n, config |-> Config(n, TypeOf(n)),
     pid |-> IF status = "running" THEN 1 ELSE NoPid,
     started_at |-> IF status = "running" THEN isoformat(Now) ELSE << >>,
     status |-> status, error |-> None, request_count |-> 1]

\* the items of a list: records as written, and records that lack the optional
\* keys, the name or the config, that hold a started_at which is no ISO time, or
\* that are not objects
Items ==
    {FullRecord(n, st) : n \in Names, st \in {"running", "error"}}
      \cup {[name |-> "a", config |-> Config("a", TypeOf("a"))],
            [config |-> Config("a", TypeOf("a"))],
            [name |-> "a"],
            [FullRecord("a", "stopped") EXCEPT !.started_at = <<"yesterday">>],
            [scalar |-> 7]}

RECURSIVE ListsOf(_, _)
\* the lists of at most k items
ListsOf(S, k) ==
    IF k = 0 THEN {<< >>}
    ELSE ListsOf(S, k - 1) \cup
         {Append(l, x) : l \in {m \in ListsOf(S, k - 1) : Len(m) = k - 1}, x \in S}

Tops == {"missing", "unreadable", "not_json", "not_object", "no_servers",
         "servers_null"}

Documents ==
    {[top |-> t, items |-> << >>] : t \in Tops}
      \cup {[top |-> "servers", items |-> l] : l \in ListsOf(Items, MaxRecords)}

\* the exception ServerInfo.from_dict(item), or info.name of its result, raises
ItemRaises(item) ==
    IF "scalar" \in DOMAIN item THEN "TypeError"
    ELSE IF ~({"name", "config"} \subseteq DOMAIN item) THEN "KeyError"
    ELSE IF /\ Get(item, "started_at", << >>) /= << >>
            /\ Head(item.started_at) /= "iso"
    THEN "ValueError"
    ELSE None

\* _load_state: a file that is missing returns at once; OSError and
\* JSONDecodeError from open() and json.load() are passed over; everything
\* raised after that, by data.get, by the iteration or by from_dict, leaves
\* _load_state and the constructor
LoadDocument(doc) ==
    CASE doc.top \in {"missing", "unreadable", "not_json", "no_servers"} ->
            [raised |-> None, servers |-> << >>]
      [] doc.top = "not_object" ->
            [raised |-> "AttributeError", servers |-> << >>]
      [] doc.top = "servers_null" ->
            [raised |-> "TypeError", servers |-> << >>]
      [] doc.top = "servers" ->
            LET bad == {i \in 1..Len(doc.items) : ItemRaises(doc.items[i]) /= None}
            IN IF bad = {}
               THEN [raised |-> None, servers |-> LoadState(doc.items)]
               ELSE [raised |-> ItemRaises(doc.items[CHOOSE i \in bad :
                                                       \A j \in bad : i <= j]),
                     servers |-> << >>]

\* ServerRegistry(state_file) over the document: a constructor that raises
\* yields no registry
Construct ==
    /\ last.op = "init"
    /\ LET out == LoadDocument(file) IN
       /\ servers' = out.servers
       /\ last' = Called(IF out.raised = None THEN "load" ELSE "load_raised",
                         out.raised, FALSE, FALSE)
    /\ UNCHANGED <<file, procs, task>>
    /\ UNCHANGED cliVars

\* the registry's calls issued by the coroutines ts on the names ns, and the
\* environment: children exiting, the control plane restarting
RegistryNext(ts, ns) ==
    \/ \E n \in ns : Register(n)
    \/ \E t \in ts, n \in ns : Start(t, n)
    \/ \E t \in ts : ConnectDone(t)
    \/ \E n \in ns : Stop(n)
    \/ \E t \in ts, n \in ns : RestartBegin(t, n)
    \/ \E t \in ts : RestartWake(t)
    \/ \E n \in ns : IncrementRequestCount(n)
    \/ Reload
    \/ \E p \in Pids : ChildExit(p)

(***************************************************************************)
(* The protocol client: one MCPClient, the children it spawns, the lines   *)
(* in their pipes and the coroutines that call it.                         *)
(***************************************************************************)
\* the one caller of the sequential specification
SeqCallers == {"c0"}
\* the callers that share the client in the concurrent specification
ConcCallers == {"c1", "c2"}
Callers == SeqCallers \cup ConcCallers
\* how many requests abandoned by cancelled calls may sit in the pipes
MaxBacklog == 1

\* self._tools / self._resources before the first successful listing
NoCache == <<"None">>

\* MCPClient.__init__
MCPClient(ty) ==
    [type |-> ty, connected |-> FALSE, process |-> NoPid, session |-> FALSE,
     tools |-> NoCache, resources |-> NoCache]

Ret(kind, val) == [kind |-> kind, val |-> val]
NoRet == Ret("none", <<>>)
Bool(b) == IF b THEN <<"True">> ELSE <<"False">>

\* no line read: _send_jsonrpc returned None (no process, empty or invalid line)
NoLine == [kind |-> "none", from |-> None]
\* readline() returned b"": the child closed its standard output
EofLine == [kind |-> "eof", from |-> None]

Resting == [pc |-> "idle", op |-> None, proc |-> NoPid, ret |-> NoRet,
            conn |-> None, line |-> NoLine]

ClientInit(ty) ==
    /\ client = MCPClient(ty)
    /\ pipe = [p \in Pids |-> << >>]
    /\ caller = [c \in Callers |-> Resting]

\* what a response line may turn out to be when it is read (a line is the
\* child's answer to the oldest request it had not answered; `from` tells whether
\* that request was the reader's own): an object with a result that
\* holds the member the operation reads, or that lacks it; an object with an
\* error, with or without a message; an object with neither; a line that is not
\* JSON; JSON that is a number, not an object
Kinds == {"result", "result_bare", "error", "error_nomsg", "other", "invalid",
          "number"}
\* what an http request may end in
HttpKinds == {"200", "200_bare", "500", "raises"}
\* what GET /health may end in: status 200, another status, an exception
ProbeKinds == {"200", "500", "raises"}

\* _send_jsonrpc: an empty line and a line json.loads rejects give None
ParseLine(line) == IF line.kind \in {"eof", "invalid"} THEN NoLine ELSE line

\* a handshake that takes any answer of the server for a success: C22 must
\* tell it from HasResult
HasResultOrError(r) == r.kind \in {"result", "result_bare", "error", "error_nomsg"}

\* response and "result" in response
HasResult(r) == r.kind \in {"result", "result_bare"}
\* response and "error" in response
HasError(r) == r.kind \in {"error", "error_nomsg"}
\* `"result" in response` raises TypeError on a number
NotIterable(r) == r.kind = "number"

\* response["result"].get("tools", []), .get("resources", [])
ListValue(r) == IF r.kind = "result" THEN <<"list", r.from>> ELSE << >>

NotConnected == Ret("isError", <<"Not connected">>)

\* list_tools / list_resources, stdio, after _send_jsonrpc
ListResult(r) == IF HasResult(r) THEN Ret("list", ListValue(r)) ELSE Ret("list", << >>)

\* an execute_tool that lacks the error branch: C8 must tell it from
\* ToolCallResult
ToolCallResultDropsError(r) ==
    IF HasResult(r) THEN Ret("result", <<r.kind, r.from>>) ELSE NotConnected

\* execute_tool, stdio, after _send_jsonrpc
ToolCallResult(r) ==
    IF HasResult(r) THEN Ret("result", <<r.kind, r.from>>)
    ELSE IF HasError(r)
    THEN Ret("isError", IF r.kind = "error" THEN <<"message", r.from>>
                        ELSE <<"Unknown error">>)
    ELSE NotConnected

\* read_resource, stdio, after _send_jsonrpc
ReadResourceResult(r) ==
    IF r.kind = "result" THEN Ret("text", <<"text", r.from>>) ELSE Ret("text", << >>)

StdioResult(op, r) ==
    IF NotIterable(r) THEN Ret("raised", <<"TypeError">>)
    ELSE CASE op \in {"list_tools", "list_resources"} -> ListResult(r)
           [] op = "execute_tool"  -> ToolCallResult(r)
           [] op = "read_resource" -> ReadResourceResult(r)

\* the operations over http, after the request
HttpResult(op, r) ==
    IF r.kind = "raises" THEN Ret("raised", <<"ClientError">>)
    ELSE CASE op \in {"list_tools", "list_resources"} ->
                Ret("list", IF r.kind = "200" THEN <<"list", r.from>> ELSE << >>)
           [] op = "execute_tool" ->
                IF r.kind = "500" THEN Ret("isError", <<"HTTP", "500">>)
                ELSE Ret("result", <<r.kind, r.from>>)
           [] op = "read_resource" ->
                Ret("text", IF r.kind = "200" THEN <<"text", r.from>> ELSE << >>)

Cache(cl, op) == IF op = "list_tools" THEN cl.tools ELSE cl.resources

\* list_tools / list_resources store the list they are about to return
CacheAfter(cl, op, found, val) ==
    IF found /\ op = "list_tools" THEN [cl EXCEPT !.tools = val]
    ELSE IF found /\ op = "list_resources" THEN [cl EXCEPT !.resources = val]
    ELSE cl

\* the call of c returns; what it returned, and from which line, is recorded for
\* the sequential caller
Return(c, op, ret, conn, line) ==
    caller' = [caller EXCEPT ![c] =
        IF c \in SeqCallers
        THEN [pc |-> "idle", op |-> op, proc |-> NoPid, ret |-> ret, conn |-> conn,
              line |-> line]
        ELSE Resting]

Suspend(c, pc, op, proc, conn) ==
    caller' = [caller EXCEPT ![c] =
        [pc |-> pc, op |-> op, proc |-> proc, ret |-> NoRet, conn |-> conn,
         line |-> NoLine]]

Answered(e) == e.answered
LineReady(q) == q /= << >> /\ Answered(Head(q))

\* another coroutine is suspended in readline() on the same stream
OtherWaiting(c, p) ==
    \E d \in Callers \ {c} :
        caller[d].pc \in {"handshake", "await"} /\ caller[d].proc = p

\* the requests c was waiting on are nobody's once c has returned
Disown(pp, c) ==
    [p \in Pids |-> [i \in 1..Len(pp[p]) |->
        IF pp[p][i].owner = c THEN [pp[p][i] EXCEPT !.owner = None] ELSE pp[p][i]]]

\* the streams of a child the client no longer holds, with no coroutine left
\* reading them, are unreachable: process is the child the client holds after
\* the step of c
Collect(pp, process, c) ==
    [p \in Pids |-> IF p /= process /\ ~OtherWaiting(c, p) THEN << >> ELSE pp[p]]

Backlog(pp) ==
    Cardinality({<<p, i>> \in Pids \X (1..(MaxBacklog + 2)) :
                    i <= Len(pp[p]) /\ pp[p][i].owner = None})

\* _send_jsonrpc(method, params) of operation op, to its suspension in
\* readline(); cl and pp are the client and the pipes as connect() left them
SendRequest(c, op, cl, conn, pp) ==
    /\ client' = cl
    /\ IF cl.type = "stdio"
       THEN IF cl.process = NoPid
            THEN /\ pipe' = Collect(pp, cl.process, c)
                 /\ Return(c, op, StdioResult(op, NoLine), conn, NoLine)
            ELSE LET p == cl.process
                     clash == OtherWaiting(c, p) /\ ~LineReady(pp[p])
                     req == [answered |-> FALSE,
                             owner |-> IF clash THEN None ELSE c]
                 IN
                 IF procs[p] = "dead"
                 THEN \* the write goes to a closed pipe: drain() raises, or the
                      \* loss shows only as end of stream
                      /\ pipe' = Collect(pp, p, c)
                      /\ \/ Return(c, op, Ret("raised", <<"ConnectionResetError">>),
                                   conn, NoLine)
                         \/ Suspend(c, "await", op, p, conn)
                 ELSE /\ clash => Backlog(pp) < MaxBacklog
                      /\ pipe' = Collect([pp EXCEPT ![p] = Append(@, req)], p, c)
                      /\ IF clash
                         THEN Return(c, op, Ret("raised", <<"RuntimeError">>),
                                     conn, NoLine)
                         ELSE Suspend(c, "await", op, p, conn)
       ELSE /\ pipe' = Collect(pp, cl.process, c)
            /\ IF ~cl.session
               THEN Return(c, op, Ret("raised", <<"AttributeError">>), conn, NoLine)
               ELSE Suspend(c, "http", op, NoPid, conn)

\* a connect() without its except clause: C23 must tell it from AfterConnect
AfterConnectUncaught(c, op, cl, ok, conn, pp, line) ==
    IF op = "connect"
    THEN /\ client' = cl
         /\ pipe' = Collect(pp, cl.process, c)
         /\ Return(c, op,
                   IF conn \in {"spawn_failed", "no_session"} \/ line.kind = "number"
                   THEN Ret("raised", <<"Exception">>)
                   ELSE Ret("bool", Bool(ok)),
                   conn, line)
    ELSE SendRequest(c, op, cl, conn, pp)

\* what follows connect() in operation op: connect() itself returns its result
\* (line is what the handshake or the probe read, if it got that far), the
\* others go on to their request whatever connect() returned
AfterConnect(c, op, cl, ok, conn, pp, line) ==
    IF op = "connect"
    THEN /\ client' = cl
         /\ pipe' = Collect(pp, cl.process, c)
         /\ Return(c, op, Ret("bool", Bool(ok)), conn, line)
    ELSE SendRequest(c, op, cl, conn, pp)

\* connect() on a client that is not connected, to its first suspension
ConnectThen(c, op) ==
    IF client.type = "stdio"
    THEN \/ /\ NextPid <= MaxSpawns
            /\ \E mode \in {"alive", "mute"} :
                   procs' = [procs EXCEPT ![NextPid] = mode]
            /\ client' = [client EXCEPT !.process = NextPid]
            /\ pipe' = Collect([pipe EXCEPT ![NextPid] =
                                    <<[answered |-> FALSE, owner |-> c]>>],
                                NextPid, c)
            /\ Suspend(c, "handshake", op, NextPid, None)
         \/ \* create_subprocess_exec raises: connect() returns false
            /\ UNCHANGED procs
            /\ AfterConnect(c, op, client, FALSE, "spawn_failed", pipe, NoLine)
    ELSE \/ \* _connect_http raises before the session exists
            /\ UNCHANGED procs
            /\ AfterConnect(c, op, client, FALSE, "no_session", pipe, NoLine)
         \/ /\ client' = [client EXCEPT !.session = TRUE]
            /\ Suspend(c, "probe", op, NoPid, None)
            /\ UNCHANGED <<procs, pipe>>

\* a connect() that lacks the early return: C21 must tell it from CallConnect
CallConnectAlwaysConnects(c) ==
    /\ UNCHANGED regVars
    /\ caller[c].pc = "idle"
    /\ ConnectThen(c, "connect")

CallConnect(c) ==
    /\ UNCHANGED regVars
    /\ caller[c].pc = "idle"
    /\ IF client.connected
       THEN /\ Return(c, "connect", Ret("bool", Bool(TRUE)), None, NoLine)
            /\ UNCHANGED <<client, pipe, procs>>
       ELSE ConnectThen(c, "connect")

\* a listing that asks the server every time: C24 must tell it from CallList
CallListNoMemo(c, op) ==
    /\ UNCHANGED regVars
    /\ caller[c].pc = "idle"
    /\ IF ~client.connected
       THEN ConnectThen(c, op)
       ELSE /\ SendRequest(c, op, client, None, pipe)
            /\ UNCHANGED procs

\* list_tools(), list_resources()
CallList(c, op) ==
    /\ UNCHANGED regVars
    /\ caller[c].pc = "idle"
    /\ IF Cache(client, op) /= NoCache
       THEN /\ Return(c, op, Ret("list", Cache(client, op)), None, NoLine)
            /\ UNCHANGED <<client, pipe, procs>>
       ELSE IF ~client.connected
       THEN ConnectThen(c, op)
       ELSE /\ SendRequest(c, op, client, None, pipe)
            /\ UNCHANGED procs

\* execute_tool(), read_resource()
CallTool(c, op) ==
    /\ UNCHANGED regVars
    /\ caller[c].pc = "idle"
    /\ IF ~client.connected
       THEN ConnectThen(c, op)
       ELSE /\ SendRequest(c, op, client, None, pipe)
            /\ UNCHANGED procs

\* readline() returns: the handshake ends, or the operation does
ReadDone(c) ==
    LET me == caller[c]
        p == me.proc
        ready == LineReady(pipe[p])
        pp == Disown(IF ready THEN [pipe EXCEPT ![p] = Tail(@)] ELSE pipe, c)
    IN
    /\ UNCHANGED regVars
    /\ me.pc \in {"handshake", "await"}
    /\ ready \/ procs[p] = "dead"
    /\ \E line \in IF ready
                   THEN {[kind |-> k,
                          from |-> IF Head(pipe[p]).owner = c THEN "own" ELSE "stale"]
                            : k \in Kinds}
                   ELSE {EofLine} :
          LET r == ParseLine(line) IN
          IF me.pc = "handshake"
          THEN LET ok == HasResult(r) IN
               AfterConnect(c, me.op,
                            IF ok THEN [client EXCEPT !.connected = TRUE] ELSE client,
                            ok, IF ok THEN "ok" ELSE "no_result", pp, line)
          ELSE /\ client' = CacheAfter(client, me.op,
                                       ~NotIterable(r) /\ HasResult(r), ListValue(r))
               /\ pipe' = Collect(pp, client.process, c)
               /\ Return(c, me.op, StdioResult(me.op, r), me.conn, line)
    /\ UNCHANGED procs

\* the health probe ends
ProbeDone(c) ==
    /\ UNCHANGED regVars
    /\ caller[c].pc = "probe"
    /\ \E k \in ProbeKinds :
          LET ok == k = "200" IN
          AfterConnect(c, caller[c].op,
                       IF ok THEN [client EXCEPT !.connected = TRUE] ELSE client,
                       ok, IF ok THEN "ok" ELSE "probe_failed", pipe,
                       [kind |-> k, from |-> "own"])
    /\ UNCHANGED procs

\* the operation's http request ends
HttpDone(c) ==
    /\ UNCHANGED regVars
    /\ caller[c].pc = "http"
    /\ \E k \in HttpKinds :
          LET r == [kind |-> k, from |-> "own"] IN
          /\ client' = CacheAfter(client, caller[c].op, k \in {"200", "200_bare"},
                                  IF k = "200" THEN <<"list", r.from>> ELSE << >>)
          /\ Return(c, caller[c].op, HttpResult(caller[c].op, r), caller[c].conn, r)
    /\ UNCHANGED <<procs, pipe>>

\* disconnect(), to its suspension in wait() or to its return
CallDisconnect(c) ==
    /\ UNCHANGED regVars
    /\ caller[c].pc = "idle"
    /\ IF client.type = "stdio" /\ client.process /= NoPid
       THEN IF procs[client.process] = "dead"
            THEN \* terminate() on a child that is gone raises ProcessLookupError
                 /\ Return(c, "disconnect", Ret("raised", <<"ProcessLookupError">>),
                           None, NoLine)
                 /\ UNCHANGED <<client, pipe, procs>>
            ELSE /\ procs' = [procs EXCEPT ![client.process] = "termed"]
                 /\ Suspend(c, "wait", "disconnect", client.process, None)
                 /\ UNCHANGED <<client, pipe>>
       ELSE /\ client' = IF client.type = "http" /\ client.session
                         THEN [client EXCEPT !.session = FALSE, !.connected = FALSE]
                         ELSE [client EXCEPT !.connected = FALSE]
            /\ Return(c, "disconnect", NoRet, None, NoLine)
            /\ UNCHANGED <<pipe, procs>>

\* disconnect(), after the child has exited
WaitDone(c) ==
    /\ UNCHANGED regVars
    /\ caller[c].pc = "wait"
    /\ procs[caller[c].proc] = "dead"
    /\ client' = [client EXCEPT !.process = NoPid, !.connected = FALSE]
    /\ pipe' = Collect(pipe, NoPid, c)
    /\ Return(c, "disconnect", NoRet, None, NoLine)
    /\ UNCHANGED procs

\* the caller's own timeout (asyncio.wait_for) cancels the suspended call
Cancel(c) ==
    /\ UNCHANGED regVars
    /\ caller[c].pc /= "idle"
    /\ Backlog(Disown(pipe, c)) <= MaxBacklog
    /\ pipe' = Collect(Disown(pipe, c), client.process, c)
    /\ Return(c, caller[c].op, Ret("cancelled", << >>), caller[c].conn, NoLine)
    /\ UNCHANGED <<client, procs>>

\* a child writes its answer to the oldest request it has not answered
Answer(p) ==
    /\ procs[p] = "alive"
    /\ \E i \in 1..Len(pipe[p]) :
          /\ ~Answered(pipe[p][i])
          /\ \A j \in 1..(i - 1) : Answered(pipe[p][j])
          /\ pipe' = [pipe EXCEPT ![p][i].answered = TRUE]
    /\ UNCHANGED <<regVars, procs, client, caller>>

ListOps == {"list_tools", "list_resources"}
ToolOps == {"execute_tool", "read_resource"}

\* the five operations that talk to the server, called by the coroutines cs,
\* and the server's side: answers, and children exiting
ClientCalls(cs) ==
    \/ \E c \in cs : CallConnect(c)
    \/ \E c \in cs, op \in ListOps : CallList(c, op)
    \/ \E c \in cs, op \in ToolOps : CallTool(c, op)
    \/ \E c \in cs : ReadDone(c)
    \/ \E c \in cs : ProbeDone(c)
    \/ \E c \in cs : HttpDone(c)
    \/ \E p \in Pids : Answer(p)
    \/ \E p \in Pids : ChildExit(p)

\* one caller at a time uses the client, disconnects it, and gives up on a
\* suspended call when its own timeout expires
ClientNext ==
    \/ ClientCalls(SeqCallers)
    \/ \E c \in SeqCallers : CallDisconnect(c)
    \/ \E c \in SeqCallers : WaitDone(c)
    \/ \E c \in SeqCallers : Cancel(c)

\* a client of either transport
ClientSpecInit == RegistryInit /\ \E ty \in {"stdio", "http"} : ClientInit(ty)

ClientSpec == ClientSpecInit /\ [][ClientNext]_vars

\* two callers share the client
ClientConcNext == ClientCalls(ConcCallers)

ClientConcSpec == ClientSpecInit /\ [][ClientConcNext]_vars

Init == RegistryInit /\ ClientInit("stdio")

\* one caller at a time runs start/restart; the synchronous calls, the children
\* and a restart of the control plane interleave with its suspended call
Next == RegistryNext(SeqTasks, Names)

Spec == Init /\ [][Next]_vars

\* any document is on the disk when the registry is constructed
LoadInit ==
    /\ file \in Documents
    /\ servers = << >>
    /\ procs = [p \in Pids |-> "none"]
    /\ task = [t \in Tasks |-> Idle]
    /\ last = Called("init", None, FALSE, FALSE)
    /\ DiscoveryIdle
    /\ ClientInit("stdio")

LoadNext == Construct

LoadSpec == LoadInit /\ [][LoadNext]_vars

\* discover_servers() called over any contents of the three candidate files
DiscoveryInit ==
    /\ configs \in [ConfigPaths -> FileContents]
    /\ discovered = NotCalled
    /\ servers = << >>
    /\ file = << >>
    /\ procs = [p \in Pids |-> "none"]
    /\ task = [t \in Tasks |-> Idle]
    /\ last = Called("init", None, FALSE, FALSE)
    /\ ClientInit("stdio")

DiscoveryNext == Discover

DiscoverySpec == DiscoveryInit /\ [][DiscoveryNext]_vars

\* the registry on a disk that may fail while start() persists its outcome
FaultNext ==
    \/ Next
    \/ \E t \in SeqTasks : ConnectDoneSaveRaises(t)

FaultSpec == Init /\ [][FaultNext]_vars

\* two coroutines run start/restart on the stdio server at the same time
ConcNext == RegistryNext(Tasks, ConcNames)

ConcSpec == Init /\ [][ConcNext]_vars

(***************************************************************************)
(* The claims about the registry.                                          *)
(***************************************************************************)
AllIdle == \A t \in Tasks : task[t].pc = "idle"

StoppedNoPid(srv, n) ==
    n \in DOMAIN srv /\ srv[n].status = "stopped" /\ srv[n].pid = NoPid

StartStepOn(l, n) ==
    l.name = n /\ l.op \in {"start", "start_begin", "restart", "restart_begin"}

\* C1: a registry constructed over a state file reports every server the file
\* records as running (with or without a pid) as stopped with no pid, and a
\* server that is stopped with no pid leaves that state only by a step of
\* start(name) (called directly or by restart)
C1_RunningRecordsLoadStopped ==
    /\ [](last.op = "reload" =>
            \A i \in 1..Len(file) :
                file[i].status = "running" => StoppedNoPid(servers, file[i].name))
    /\ [][\A n \in Names :
            StoppedNoPid(servers, n) /\ ~StoppedNoPid(servers', n)
                => StartStepOn(last', n)]_vars

C1_Witness ==
    /\ last.op = "reload"
    /\ \E i \in 1..Len(file) : file[i].status = "running" /\ file[i].pid /= NoPid
    /\ \E i \in 1..Len(file) : file[i].status = "running" /\ file[i].pid = NoPid

\* C2: a ServerInfo has a pid only if its transport is stdio and its status is
\* running
C2_PidOnlyWhenRunningStdio ==
    \A n \in DOMAIN servers :
        servers[n].pid /= NoPid =>
            servers[n].config.type = "stdio" /\ servers[n].status = "running"

\* C3: when stop(name) has returned on a server that was running, it returned
\* true and the server is stopped with no pid
C3_StopLeavesStoppedNoPid ==
    last.op = "stop" /\ ~last.fast =>
        last.ret /\ StoppedNoPid(servers, last.name)

\* C4, as claimed: a start(name) that ran uninterrupted and returned true leaves
\* the server running, and a start(name) called next creates no process, leaves
\* the pid unchanged and, where it returns at once, returns true
C4_SecondStartIsNoOp ==
    /\ [][last.op = "start_begin" /\ last'.op = "start" /\ last'.name = last.name
              /\ last'.ret
            => servers'[last.name].status = "running"]_vars
    /\ [][\A n \in Names :
            /\ last.op = "start" /\ last.name = n /\ last.ret
            /\ n \in DOMAIN servers /\ servers[n].status = "running"
            /\ AllIdle
            /\ \E t \in Tasks : Start(t, n)
            => /\ procs' = procs
               /\ servers'[n].pid = servers[n].pid
               /\ last'.op = "start" => last'.ret]_vars

\* C4, amended: as claimed when the child recorded by the first call still
\* exists at the second call, which then returns true at once and changes
\* nothing; for an http server the second call creates no process and leaves the
\* pid absent
C4_SecondStartIsNoOpWhileChildAlive ==
    /\ [][last.op = "start_begin" /\ last'.op = "start" /\ last'.name = last.name
              /\ last'.ret
            => servers'[last.name].status = "running"]_vars
    /\ [][\A n \in Names :
            /\ last.op = "start" /\ last.name = n /\ last.ret
            /\ n \in DOMAIN servers /\ servers[n].status = "running"
            /\ AllIdle
            /\ \E t \in Tasks : Start(t, n)
            => IF servers[n].config.type = "stdio"
               THEN IsProcessAlive(servers[n].pid)
                        => /\ last' = Called("start", n, TRUE, TRUE)
                           /\ UNCHANGED <<servers, file, procs>>
               ELSE /\ procs' = procs
                    /\ servers'[n].pid = NoPid
                    /\ servers[n].pid = NoPid]_vars

C4_Witness ==
    /\ last = Called("start", "a", TRUE, TRUE)
    /\ servers["a"].status = "running"
    /\ IsProcessAlive(servers["a"].pid)

\* C5: overlapping start(name) calls spawn at most one child for that server
C5_OverlappingStartsSpawnOnce ==
    \A t1, t2 \in Tasks :
        /\ t1 /= t2
        /\ task[t1].pc = "connecting" /\ task[t2].pc = "connecting"
        /\ task[t1].name = task[t2].name
        => ~(task[t1].child /= NoPid /\ task[t2].child /= NoPid)

\* C10: a start(name) suspended in connect() can always resume and return: it
\* does not wait for ever on a child that never answers the initialize request
C10_StartAlwaysReturns ==
    \A t \in Tasks : task[t].pc = "connecting" => ENABLED ConnectDone(t)

\* C11: a registry loaded from the state file has every server the old registry
\* had, with the same name, config and request_count, and reports as stopped
\* with no pid each one that was running
C11_ReloadRoundTrip ==
    [][last'.op = "reload" /\ Reload =>
        \A n \in DOMAIN servers :
            /\ n \in DOMAIN servers'
            /\ servers'[n].name = servers[n].name
            /\ servers'[n].config = servers[n].config
            /\ servers'[n].request_count = servers[n].request_count
            /\ servers[n].status = "running" => StoppedNoPid(servers', n)]_vars

C11_Witness ==
    /\ last.op = "reload"
    /\ \E i \in 1..Len(file) :
          /\ file[i].status = "running" /\ file[i].pid /= NoPid
          /\ file[i].request_count > 0
          /\ servers[file[i].name].request_count = file[i].request_count
          /\ servers[file[i].name].config = file[i].config
          /\ StoppedNoPid(servers, file[i].name)

\* C12: no step takes a registered name out of the registry or lowers its
\* request_count, and the count changes only by one, in increment_request_count
C12_RequestCountNeverDecreases ==
    [][\A n \in DOMAIN servers :
          /\ n \in DOMAIN servers'
          /\ servers'[n].request_count >= servers[n].request_count
          /\ servers'[n].request_count /= servers[n].request_count
                => /\ servers'[n].request_count = servers[n].request_count + 1
                   /\ last' = Called("incr", n, FALSE, FALSE)]_vars

\* C13: a ServerInfo has a started_at exactly when its status is running
C13_StartedAtIffRunning ==
    \A n \in DOMAIN servers :
        servers[n].started_at /= None <=> servers[n].status = "running"

\* C14: a ServerInfo whose status is running has no error message
C14_RunningHasNoError ==
    \A n \in DOMAIN servers :
        servers[n].status = "running" => servers[n].error = None

\* C15: when start(name) has returned false on a registered name, the server's
\* status is error with the message "Failed to connect", and the state file
\* records both
C15_FailedConnectRecorded ==
    /\ last.op \in {"start", "restart"} /\ ~last.ret
    /\ last.name \in DOMAIN servers
    => /\ servers[last.name].status = "error"
       /\ servers[last.name].error = "Failed to connect"
       /\ \E i \in 1..Len(file) :
             /\ file[i].name = last.name
             /\ file[i].status = "error"
             /\ file[i].error = "Failed to connect"

\* C16: start(name) never raises, whatever raises while it runs
C16_StartNeverRaises == last.op \notin {"start_raised", "restart_raised"}

\* the record rec of the state file holds the seven fields of info
Mirrors(rec, info) ==
    /\ rec.name = info.name
    /\ rec.config = info.config
    /\ rec.pid = info.pid
    /\ rec.started_at = (IF info.started_at = None THEN << >>
                         ELSE isoformat(info.started_at))
    /\ rec.status = info.status
    /\ rec.error = info.error
    /\ rec.request_count = info.request_count

\* the registry call that made the last step changed the registry: register, a
\* start that attempted a connect and returned, a stop of a running server, an
\* increment_request_count on a known name
Mutated ==
    \/ last.op = "register"
    \/ last.op \in {"start", "restart"} /\ ~last.fast /\ last.name \in DOMAIN servers
    \/ last.op = "stop" /\ ~last.fast
    \/ last.op = "incr" /\ last.name \in DOMAIN servers

\* C17: when a mutating call has completed, the state file holds exactly one
\* record for each registered server, with the fields of its ServerInfo
C17_FileMirrorsRegistry ==
    Mutated =>
        /\ Len(file) = Cardinality(DOMAIN servers)
        /\ \A n \in DOMAIN servers :
              \E i \in 1..Len(file) :
                  /\ Mirrors(file[i], servers[n])
                  /\ \A j \in 1..Len(file) : file[j].name = n => j = i

C17_Witness ==
    /\ last.op = "stop" /\ ~last.fast
    /\ DOMAIN servers = Names
    /\ \E n \in Names : servers[n].status = "error"
    /\ \A n \in Names : \E i \in 1..Len(file) : Mirrors(file[i], servers[n])

\* the document is missing, or is not the JSON of a list of server records
Unparsable(doc) ==
    \/ doc.top /= "servers"
    \/ \E i \in 1..Len(doc.items) : ItemRaises(doc.items[i]) /= None

\* C18: the constructor over a missing or unparsable state file does not raise
\* and yields an empty registry
C18_UnparsableFileLoadsEmpty ==
    last.op \in {"load", "load_raised"} /\ Unparsable(file)
        => last.op = "load" /\ servers = << >>

\* C19: stop(name) returns false exactly when the name is not registered, and on
\* a registered server that is not running it returns true and changes no
\* ServerInfo, nor the state file, nor any process
C19_StopOfNotRunningIsNoOp ==
    [][\A n \in Names :
          last'.op = "stop" /\ last'.name = n /\ Stop(n) =>
              /\ ~last'.ret <=> n \notin DOMAIN servers
              /\ n \in DOMAIN servers /\ servers[n].status /= "running"
                    => last'.ret /\ UNCHANGED <<servers, file, procs>>]_vars

C19_Witness ==
    /\ last = Called("stop", "a", TRUE, TRUE)
    /\ servers["a"].status = "starting"
    /\ servers["a"].pid /= NoPid

\* the child the registry tracks for n: the pid of a running stdio server
Tracked(n) ==
    IF /\ n \in DOMAIN servers /\ servers[n].status = "running"
       /\ servers[n].config.type = "stdio"
    THEN servers[n].pid ELSE NoPid

\* C20: restart(name) stops before it starts and returns what its start
\* returns: its first step sends the termination signal to the tracked child
\* and spawns nothing, a restart that returns true leaves the server running
\* with the pid of the child it spawned, and a restart of an unknown name
\* returns false
C20_RestartStopsThenStarts ==
    /\ [][\A t \in Tasks, n \in Names :
            RestartBegin(t, n) =>
                /\ Spawned' = Spawned
                /\ task'[t].pc = "sleep"
                /\ IsProcessAlive(Tracked(n)) => procs'[Tracked(n)] = "termed"
                /\ n \in DOMAIN servers => servers'[n].status /= "running"]_vars
    /\ [][\A t \in Tasks :
            /\ task[t].op = "restart" /\ task[t].pc = "connecting"
            /\ ConnectDone(t)
            => /\ last'.op = "restart" /\ last'.name = task[t].name
               /\ last'.ret =>
                    /\ servers'[task[t].name].status = "running"
                    /\ task[t].child /= NoPid
                          => servers'[task[t].name].pid = task[t].child]_vars
    /\ [](last.op = "restart" /\ last.name \notin DOMAIN servers => ~last.ret)

(***************************************************************************)
(* The claims about the protocol client.                                   *)
(***************************************************************************)
\* the call the sequential caller c made last has returned, and was not
\* abandoned by the caller's own timeout
Returned(c, op) ==
    caller[c].pc = "idle" /\ caller[c].op = op /\ caller[c].ret.kind /= "cancelled"

\* C6: a request is written to a child only when the response line of every
\* request written to it before has been read: no child's pipes ever hold two
\* requests whose response lines are unread
C6_OneRequestInFlight == \A p \in Pids : Len(pipe[p]) <= 1

\* C7: an execute_tool whose connect() failed (the spawn failed, the handshake
\* gave no result, or the health probe failed) returns the "Not connected"
\* error result, and does not raise
C7_NotConnectedWhenConnectFails ==
    \A c \in SeqCallers :
        /\ Returned(c, "execute_tool")
        /\ caller[c].conn \in {"spawn_failed", "no_result", "probe_failed"}
        => caller[c].ret = NotConnected

\* C8: an execute_tool that read a line holding a JSON-RPC error returns the
\* error result with the error's message, or with "Unknown error" when the error
\* has no message; one that read a line holding a result returns that result
C8_ErrorPassthrough ==
    \A c \in SeqCallers :
        Returned(c, "execute_tool") =>
            LET line == caller[c].line
                ret == caller[c].ret
            IN
            /\ line.kind = "error" => ret = Ret("isError", <<"message", line.from>>)
            /\ line.kind = "error_nomsg" => ret = Ret("isError", <<"Unknown error">>)
            /\ line.kind \in {"result", "result_bare"}
                    => ret = Ret("result", <<line.kind, line.from>>)

C8_Witness ==
    \E c \in SeqCallers :
        /\ Returned(c, "execute_tool")
        /\ caller[c].line = [kind |-> "error_nomsg", from |-> "own"]
        /\ caller[c].conn = "ok"

\* C9: an execute_tool waiting for a line from a child that writes none can
\* always resume and return: it does not wait for ever
C9_ExecuteToolAlwaysReturns ==
    \A c \in SeqCallers :
        /\ caller[c].op = "execute_tool"
        /\ caller[c].pc \in {"handshake", "await"}
        /\ procs[caller[c].proc] = "mute"
        => ENABLED ReadDone(c)

\* C21: connect() on a client that is already connected returns true at once:
\* it spawns no process, opens no session, writes no request, and leaves every
\* field of the client as it was
C21_ConnectIdempotent ==
    [][\A c \in SeqCallers :
            client.connected /\ CallConnect(c) =>
                /\ caller'[c].pc = "idle"
                /\ caller'[c].ret = Ret("bool", Bool(TRUE))
                /\ UNCHANGED <<client, pipe, procs>>]_vars

C21_Witness ==
    \E c \in SeqCallers :
        /\ Returned(c, "connect")
        /\ caller[c].conn = None
        /\ caller[c].ret = Ret("bool", Bool(TRUE))
        /\ client.connected
        /\ client.tools /= NoCache

\* the handle of the client's transport is present
HandlePresent(cl) == IF cl.type = "stdio" THEN cl.process /= NoPid ELSE cl.session

ConnectFailures == {"spawn_failed", "no_session", "no_result", "probe_failed"}

ListSuccess == {"result", "result_bare", "200", "200_bare"}

C25_DisconnectClearsEverything ==
    /\ [](\A c \in SeqCallers :
            caller[c].pc = "idle" /\ caller[c].op = "disconnect"
                /\ caller[c].ret.kind /= "cancelled"
            => /\ caller[c].ret = NoRet
               /\ ~client.connected
               /\ client.process = NoPid
               /\ ~client.session)
    /\ [][\A c \in SeqCallers :
            WaitDone(c) => procs'[caller[c].proc] = "dead"]_vars
    /\ [][\A c \in SeqCallers :
            client = MCPClient(client.type) /\ CallDisconnect(c)
            => /\ caller'[c].pc = "idle" /\ caller'[c].ret = NoRet
               /\ UNCHANGED <<client, pipe, procs>>]_vars

\* C26: an operation that returned did not raise; when the line it read was
\* empty or was not JSON it returned its default value (a listing the empty
\* list, read_resource the empty string, execute_tool an error result), and
\* read_resource returned the empty string for a result without a text
C26_FailedCallReturnsDefault ==
    \A c \in SeqCallers, op \in ListOps \cup ToolOps :
        Returned(c, op) =>
            /\ caller[c].ret.kind /= "raised"
            /\ caller[c].line.kind \in {"eof", "invalid"} =>
                 CASE op \in ListOps -> caller[c].ret = Ret("list", << >>)
                   [] op = "read_resource" -> caller[c].ret = Ret("text", << >>)
                   [] op = "execute_tool" -> caller[c].ret.kind = "isError"
            /\ op = "read_resource" /\ caller[c].line.kind = "result_bare" =>
                 caller[c].ret = Ret("text", << >>)

(***************************************************************************)
(* The claims about server discovery.                                      *)
(***************************************************************************)
\* a valid config file: an object whose servers mapping is an object of objects
ValidConfig(content) ==
    /\ content.t = "object"
    /\ ServersMapping(content).value.t = "object"
    /\ \A i \in 1..Len(ServersMapping(content).value.v) :
            ServersMapping(content).value.v[i][2].t = "object"

\* the entries of a valid file that name a transport, in document order
Transported(content) ==
    LET HasTransport(pair) == Keys(pair[2]) \cap {"command", "url"} /= {}
    IN SelectSeq(ServersMapping(content).value.v, HasTransport)

\* what discover_servers() returns when only the i-th candidate file exists
Alone(i) ==
    LET path == get_user_mcp_configs[i] IN
    discover_servers([NoConfigs EXCEPT ![path] = configs[path]]).value

C28_UnexpectedShapeIsSkipped ==
    discovered.called =>
        /\ discovered.raised = None
        /\ \A i \in 1..3 :
             ValidConfig(configs[get_user_mcp_configs[i]]) =>
                \A k \in 1..Len(Alone(i)) :
                    \E j \in 1..Len(discovered.servers) :
                        discovered.servers[j] = Alone(i)[k]

\* the servers discover_servers() returned from the i-th candidate file
FromFile(i) ==
    LET IsFrom(server) == server.source = get_user_mcp_configs[i]
    IN SelectSeq(discovered.servers, IsFrom)

\* C29: the servers mapping of a file that holds an object is the value of its
\* key mcpServers if it has that key, else the value of its key servers if it
\* has that one, else the object itself; the servers returned from the file are
\* the entries of that mapping that name a transport, in order, and no others
C29_MappingPrecedence ==
    discovered.called /\ discovered.raised = None =>
        \A i \in 1..3 :
            LET content == configs[get_user_mcp_configs[i]]
                mapping == IF "mcpServers" \in Keys(content)
                           THEN Item(content, "mcpServers")
                           ELSE IF "servers" \in Keys(content)
                           THEN Item(content, "servers")
                           ELSE content
                Named(pair) == /\ pair[2].t = "object"
                               /\ Keys(pair[2]) \cap {"command", "url"} /= {}
            IN
            content.t = "object" =>
                /\ ServersMapping(content) = Returns(mapping)
                /\ Len(FromFile(i)) = Len(SelectSeq(mapping.v, Named))
                /\ \A k \in 1..Len(FromFile(i)) :
                        FromFile(i)[k].name = SelectSeq(mapping.v, Named)[k][1]

C29_Witness ==
    /\ discovered.called
    /\ discovered.raised = None
    /\ configs[get_user_mcp_configs[1]] =
            JObject(<<Member("servers", JObject(<<Member("b", HttpBare)>>)),
                      Member("mcpServers", JObject(<<Member("a", StdioBare)>>)),
                      Member("c", StdioBare)>>)
    /\ configs[get_user_mcp_configs[2]] =
            JObject(<<Member("servers", JObject(<<Member("b", HttpBare)>>))>>)
    /\ configs[get_user_mcp_configs[3]] = JObject(<<Member("a", HttpBare)>>)
    /\ Len(discovered.servers) = 3
    /\ discovered.servers[1].name = "a" /\ discovered.servers[1].type = "stdio"
    /\ discovered.servers[2].name = "b"
    /\ discovered.servers[3].name = "a" /\ discovered.servers[3].type = "http"

\* C30: of the entries of a valid file, those with neither a command nor a url
\* key give no server; an entry with a command key gives a stdio server with
\* that command, its args or the empty list, and its env or the empty mapping,
\* also when it has a url key; an entry with a url key and no command key gives
\* an http server with that url, with the entry's auth when it has one and
\* without an auth member when it has none
C30_EntriesClassified ==
    discovered.called /\ discovered.raised = None =>
        \A i \in 1..3 :
            LET path == get_user_mcp_configs[i]
                content == configs[path]
            IN
            ValidConfig(content) =>
                /\ Len(FromFile(i)) = Len(Transported(content))
                /\ \A k \in 1..Len(FromFile(i)) :
                     LET name == Transported(content)[k][1]
                         entry == Transported(content)[k][2]
                         server == FromFile(i)[k]
                     IN
                     IF "command" \in Keys(entry)
                     THEN server =
                            [name |-> name, type |-> "stdio",
                             command |-> Item(entry, "command"),
                             args |-> IF "args" \in Keys(entry)
                                      THEN Item(entry, "args") ELSE JArray(<< >>),
                             env |-> IF "env" \in Keys(entry)
                                     THEN Item(entry, "env") ELSE JObject(<< >>),
                             source |-> path]
                     ELSE IF "auth" \in Keys(entry)
                     THEN server =
                            [name |-> name, type |-> "http",
                             url |-> Item(entry, "url"),
                             auth |-> Item(entry, "auth"), source |-> path]
                     ELSE server =
                            [name |-> name, type |-> "http",
                             url |-> Item(entry, "url"), source |-> path]

C30_Witness ==
    /\ discovered.called
    /\ discovered.raised = None
    /\ configs[get_user_mcp_configs[1]] =
            JObject(<<Member("a", JObject(<<Member("url", Url),
                                            Member("command", Command)>>))>>)
    /\ configs[get_user_mcp_configs[2]].t = "object"
    /\ Len(configs[get_user_mcp_configs[2]].v) = 1
    /\ configs[get_user_mcp_configs[2]].v[1][2].t = "object"
    /\ Keys(configs[get_user_mcp_configs[2]].v[1][2]) = {"url", "auth"}
    /\ configs[get_user_mcp_configs[3]] =
            JObject(<<Member("a", NoTransport), Member("b", StdioBare)>>)
    /\ Len(discovered.servers) = 3
    /\ discovered.servers[1].type = "stdio"
    /\ discovered.servers[1].args = JArray(<< >>)
    /\ discovered.servers[2].type = "http"
    /\ "auth" \in DOMAIN discovered.servers[2]
    /\ discovered.servers[3].name = "b"

\* C31: every config discover_servers() returned is of one transport: of type
\* stdio with a command and no url, or of type http with a url and no command,
\* args or env
C31_OneTransportVariant ==
    discovered.called =>
        \A k \in 1..Len(discovered.servers) :
            LET server == discovered.servers[k] IN
            \/ /\ server.type = "stdio"
               /\ "command" \in DOMAIN server
               /\ "url" \notin DOMAIN server
            \/ /\ server.type = "http"
               /\ "url" \in DOMAIN server
               /\ DOMAIN server \cap {"command", "args", "env"} = {}

C31_Witness ==
    /\ discovered.called
    /\ discovered.raised = None
    /\ configs[get_user_mcp_configs[1]] = JObject(<<Member("a", HttpBare)>>)
    /\ configs[get_user_mcp_configs[2]] = Missing
    /\ configs[get_user_mcp_configs[3]] =
            JObject(<<Member("a", JObject(<<Member("url", Url),
                                            Member("command", Command)>>))>>)
    /\ Len(discovered.servers) = 2
    /\ DOMAIN discovered.servers[1] = {"name", "type", "url", "source"}
    /\ DOMAIN discovered.servers[2] =
            {"name", "type", "command", "args", "env", "source"}

\* C32: increment_request_count(name) on a registered name adds one to that
\* server's request_count, leaves every other field of every server as it was,
\* and leaves the state file holding one record per server that mirrors it; on
\* an unknown name it leaves the map and the file as they were; it spawns and
\* signals no process and returns
C32_IncrementFrame ==
    [][\A n \in Names :
            last'.op = "incr" /\ last'.name = n /\ IncrementRequestCount(n) =>
                /\ UNCHANGED <<procs, task>>
                /\ DOMAIN servers' = DOMAIN servers
                /\ \A m \in DOMAIN servers :
                     servers'[m] =
                        [servers[m] EXCEPT !.request_count =
                            IF m = n THEN @ + 1 ELSE @]
                /\ IF n \in DOMAIN servers
                   THEN /\ Len(file') = Cardinality(DOMAIN servers)
                        /\ \A m \in DOMAIN servers :
                             \E i \in 1..Len(file') : Mirrors(file'[i], servers'[m])
                   ELSE file' = file]_vars

C32_Witness ==
    /\ last = Called("incr", "a", FALSE, FALSE)
    /\ DOMAIN servers = Names
    /\ servers["a"].request_count = 1
    /\ servers["a"].status = "starting"
    /\ servers["b"].status = "running"
    /\ \E i \in 1..Len(file) : file[i].name = "a" /\ file[i].request_count = 1

\* C33: on a stdio client used by one caller at a time, the line from which a
\* list_tools, list_resources, execute_tool or read_resource call took its
\* value is the answer the server wrote to that call's own request, also after
\* an earlier call was abandoned by the caller's timeout
C33_AnswerIsToOwnRequest ==
    \A c \in SeqCallers, op \in ListOps \cup ToolOps :
        /\ client.type = "stdio"
        /\ Returned(c, op)
        /\ caller[c].line.kind \in Kinds
        => caller[c].line.from = "own"

\* C34: when no start is in flight, every child a start spawned that is alive
\* and was not sent the termination signal is the pid of a server recorded as
\* running
C34_NoOrphanChildren ==
    AllIdle =>
        \A p \in Pids :
            procs[p] \in {"alive", "mute"} =>
                \E n \in DOMAIN servers :
                    servers[n].status = "running" /\ servers[n].pid = p

\* C35: when stop(name) returned true while a start(name) was suspended in
\* connect(), and that start then returns with no call in between, the server
\* is not running
C35_StopNotOverriddenByEarlierStart ==
    [][\A t \in Tasks :
            /\ last.op = "stop" /\ last.ret
            /\ task[t].pc = "connecting" /\ task[t].op = "start"
            /\ task[t].name = last.name
            /\ ConnectDone(t)
            => servers'[last.name].status /= "running"]_vars

\* C36: a call is waiting for the answer to its tools/list, resources/list,
\* tools/call or resources/read request, over the pipe or over http, only on a
\* client whose connected flag is set, and never after its own connect()
\* returned false
C36_RequestsOnlyWhileConnected ==
    \A c \in SeqCallers :
        caller[c].pc \in {"await", "http"} =>
            /\ client.connected
            /\ caller[c].conn \notin ConnectFailures

\* C37: at most one child the client spawned is running, and when a connect()
\* has returned false after a failed handshake the child it spawned is not
\* running
C37_AtMostOneLiveChild ==
    /\ Cardinality({p \in Pids : procs[p] \in {"alive", "mute"}}) <= 1
    /\ \A c \in SeqCallers :
            /\ Returned(c, "connect") /\ caller[c].conn = "no_result"
            /\ client.process /= NoPid
            => procs[client.process] \notin {"alive", "mute"}

\* C38: no record of the state file has status starting; a server has status
\* starting only while a start of it is suspended in connect(); and no server of
\* a registry just loaded from the file has status starting
C38_StartingOnlyInFlight ==
    /\ \A i \in 1..Len(file) : file[i].status /= "starting"
    /\ \A n \in DOMAIN servers :
            servers[n].status = "starting" =>
                \E t \in Tasks : task[t].pc = "connecting" /\ task[t].name = n
    /\ last.op = "reload" =>
            \A n \in DOMAIN servers : servers[n].status /= "starting"

\* get_server_by_name(name): the configs its loop `server["name"] == name` can
\* stop at, as positions in what discover_servers() returned
Candidates(name) ==
    {k \in 1..Len(discovered.servers) : discovered.servers[k].name = name}

\* C39: no two configs discover_servers() returned have the same name, so for
\* every name get_server_by_name has at most one config to return
C39_DiscoveredNamesUnique ==
    discovered.called =>
        \A k \in 1..Len(discovered.servers) :
            Cardinality(Candidates(discovered.servers[k].name)) <= 1
====
